---------------------------- MODULE Spec2Model ----------------------------
(***************************************************************************)
(* A model of jim::VoxReader (src/src/VoxReader.hpp): the recursive chunk  *)
(* decoder, the chunk interpretation loop of VoxReader::load, the scene    *)
(* graph node storage, the layer / material tables and the palette.        *)
(* Also view2d, RGBA::pack / unpack, the destructor, and the load of       *)
(* src/src/VoxReader.cpp.                                                  *)
(*                                                                         *)
(* Bytes are naturals 0..255, a stream is a sequence of bytes, a chunk id  *)
(* is the 4 bytes read from the stream (ASCII codes).  Memory the code     *)
(* reads without having written it (the target of a failed istream::read)  *)
(* is an oracle byte g chosen nondeterministically per load.  Accesses     *)
(* outside an object (operator[] past a vector's end, an iterator moved    *)
(* past end(), a freed palette) end in the status "undefined": from there  *)
(* the build may do anything and nothing is asserted of the later states.  *)
(***************************************************************************)
EXTENDS Integers, Sequences, FiniteSets, TLC

VARIABLES
    vox,              \* the VoxReader object: models, palette, nodes, layers, materials
    heap,             \* palette tables allocated with new: <<[table, live]>>
    DEFAULT_PALETTE,  \* the static table VoxReader::DEFAULT_PALETTE
    pc,               \* "idle" | "loop" | "cpp_loop" | "cpp_body" | "viewed" | "destroyed" | "undefined"
    hdr,              \* the magic and version the last load read, and the stream's failbit
    children,         \* main.children of the load in progress (kept after it ends)
    iter,             \* the loop cursor, 1-based; Len(children) + 1 is end()
    result,           \* how the last load ended: "none" | "ok" | an exception
    fed,              \* number of top-level chunks given to this reader so far
    decoded,          \* result of the last stand-alone Chunk decode (SpecChunk)
    view,             \* what the last call of view2d returned, and its arguments
    color             \* the last color packed or unpacked, with the result

vars == <<vox, heap, DEFAULT_PALETTE, pc, hdr, children, iter, result, fed, decoded,
          view, color>>

---------------------------------------------------------------------------
(* Bounds of the model *)

\* top-level chunks fed to one reader over all its loads
MaxChunks == 3
\* children per chunk in the chunk trees given to the stand-alone decoder
MaxKids == 2
\* voxels of a model given to view2d
MaxVoxels == 2

---------------------------------------------------------------------------
(* Program constants *)

Version == 150
PaletteSize == 256
HeaderBytes == 12

Byte == 0..255

\* ASCII codes of the bytes the code compares chunk ids against
ChN == 110
TagVOX  == <<86, 79, 88, 32>>
TagMAIN == <<77, 65, 73, 78>>
TagPACK == <<80, 65, 67, 75>>
TagSIZE == <<83, 73, 90, 69>>
TagXYZI == <<88, 89, 90, 73>>
TagRGBA == <<82, 71, 66, 65>>
TagNTRN == <<110, 84, 82, 78>>
TagNGRP == <<110, 71, 82, 80>>
TagNSHP == <<110, 83, 72, 80>>
TagLAYR == <<76, 65, 89, 82>>
TagMATL == <<77, 65, 84, 76>>

---------------------------------------------------------------------------
(* Utilities *)

Min(a, b) == IF a < b THEN a ELSE b

\* the value r under the name of K's parameter
With(r, K(_)) == K(r)

\* readInt(const uint8_t[]): 4 little-endian bytes as a 32-bit int (two's complement)
Int32(b0, b1, b2, b3) ==
    b0 + 256 * b1 + 65536 * b2 + 16777216 * (IF b3 >= 128 THEN b3 - 256 ELSE b3)

\* byte k (1-based) of a buffer; past its end the read is outside the object
InBuf(buf, p, n) == p >= 0 /\ p + n <= Len(buf)

readInt(buf, p) == Int32(buf[p + 1], buf[p + 2], buf[p + 3], buf[p + 4])

\* strcmp(a, lit) == 0 for a 4-byte id (id[4] is '\0') and a 4-character literal:
\* the comparison ends at the first differing byte or at a NUL in both
CStr(s) ==
    LET nul == {i \in 1..Len(s) : s[i] = 0}
    IN  IF nul = {} THEN s
        ELSE SubSeq(s, 1, (CHOOSE i \in nul : \A j \in nul : i <= j) - 1)

StrEq(id, lit) == CStr(id) = CStr(lit)

---------------------------------------------------------------------------
(* std::istream over a byte sequence.  read(n) of fewer than n remaining   *)
(* bytes stores the bytes there are and leaves the rest of the target as   *)
(* it was; every later read finds the stream at its end.                   *)

\* byte i (1-based) of an n-byte read at position pos; g where nothing was stored
StreamByte(data, pos, i, g) == IF pos + i <= Len(data) THEN data[pos + i] ELSE g

\* readInt(std::istream&): the target `integer` is uninitialized before the read
readIntStream(data, pos, g) ==
    Int32(StreamByte(data, pos, 1, g), StreamByte(data, pos, 2, g),
          StreamByte(data, pos, 3, g), StreamByte(data, pos, 4, g))

Advance(data, pos, n) == Min(pos + n, Len(data))

\* whether a read of n bytes at pos sets the stream's failbit
ShortRead(data, pos, n) == n > 0 /\ pos + n > Len(data)

---------------------------------------------------------------------------
(* VoxReader::Chunk::Chunk(std::istream, int byteOffset[])                 *)
(*                                                                         *)
(* Returns [status, chunk, pos, off, fail]: status "ok" or "length_error"  *)
(* (the std::length_error of content.resize with a negative contentSize),  *)
(* the chunk [id, content, children] with the contentSize and childrenSize *)
(* it declared, the stream position, the value byteOffset points to after  *)
(* the constructor, and the stream's failbit.                              *)

RECURSIVE Chunk(_, _, _, _)
RECURSIVE ChunkChildren(_, _, _, _, _, _, _)

\* while (byteOffset[0] - startByte < childrenSize) children.push_back(Chunk(s, byteOffset));
ChunkLoopCond(off, startByte, childrenSize) == off - startByte < childrenSize

ChunkChildren(data, pos, off, startByte, childrenSize, g, acc) ==
    IF ChunkLoopCond(off, startByte, childrenSize)
    THEN With(Chunk(data, pos, off, g), LAMBDA r :
             IF r.status # "ok"
             THEN [status |-> r.status, children |-> acc, pos |-> r.pos, off |-> r.off,
                   fail |-> r.fail]
             ELSE With(ChunkChildren(data, r.pos, r.off, startByte, childrenSize, g,
                                     Append(acc, r.chunk)),
                       LAMBDA rest : [rest EXCEPT !.fail = @ \/ r.fail]))
    ELSE [status |-> "ok", children |-> acc, pos |-> pos, off |-> off, fail |-> FALSE]

\* byteOffset[0] += childrenSize, after the children loop
ChunkEndOffset(off, childrenSize) == off + childrenSize

Chunk(data, pos, byteOffset, g) ==
    \* s.read(id, 4); contentSize = readInt(s); childrenSize = readInt(s);
    With(readIntStream(data, Advance(data, pos, 4), g), LAMBDA contentSize :
    With(readIntStream(data, Advance(data, pos, 8), g), LAMBDA childrenSize :
    LET id        == [i \in 1..4 |-> StreamByte(data, pos, i, g)]
        p3        == Advance(data, pos, HeaderBytes)
        \* byteOffset[0] += 12; startByte = byteOffset[0]; byteOffset[0] += contentSize
        startByte == byteOffset + HeaderBytes
        off2      == byteOffset + HeaderBytes + contentSize
    IN  IF contentSize < 0
        THEN [status |-> "length_error",
              chunk  |-> [id |-> id, content |-> <<>>, children |-> <<>>,
                          contentSize |-> contentSize, childrenSize |-> childrenSize],
              pos |-> p3, off |-> off2, fail |-> ShortRead(data, pos, HeaderBytes)]
        ELSE \* content.resize(contentSize); s.read(content, contentSize); the loop
             With(ChunkChildren(data, Advance(data, p3, contentSize), off2, startByte,
                                childrenSize, g, <<>>),
                  LAMBDA kids :
                 [status |-> kids.status,
                  chunk  |-> [id |-> id,
                              content |-> [i \in 1..contentSize |-> StreamByte(data, p3, i, 0)],
                              children |-> kids.children,
                              contentSize |-> contentSize, childrenSize |-> childrenSize],
                  pos |-> kids.pos,
                  off |-> ChunkEndOffset(kids.off, childrenSize),
                  fail |-> \/ ShortRead(data, pos, HeaderBytes)
                           \/ ShortRead(data, p3, contentSize)
                           \/ kids.fail])))

---------------------------------------------------------------------------
(* Reads over a chunk's content through a walking pointer (const uint8_t).  *)
(* p is the pointer's offset into the content.  A read returns              *)
(* [st, val, p]: st is "ok", "undefined" (the read leaves the content) or   *)
(* "length_error" (a negative count handed to reserve / resize).            *)

Rd(st, val, p) == [st |-> st, val |-> val, p |-> p]

\* int v = readInt(ptr); ptr += 4;
readIntAt(buf, p) ==
    IF InBuf(buf, p, 4) THEN Rd("ok", readInt(buf, p), p + 4) ELSE Rd("undefined", 0, p)

\* std::string readString(input)
readString(buf, p) ==
    With(readIntAt(buf, p), LAMBDA n :
        IF n.st # "ok" THEN Rd(n.st, <<>>, p)
        ELSE IF n.val < 0 \/ ~InBuf(buf, n.p, n.val) THEN Rd("undefined", <<>>, n.p)
        ELSE Rd("ok", SubSeq(buf, n.p + 1, n.p + n.val), n.p + n.val))

RECURSIVE readEntries(_, _, _, _)
\* for (int i = 0; i < entries; ++i) { key = readString; value = readString; emplace_back }
readEntries(buf, p, entries, acc) ==
    IF entries <= 0 THEN Rd("ok", acc, p) ELSE
    With(readString(buf, p), LAMBDA key :
        IF key.st # "ok" THEN Rd(key.st, acc, key.p) ELSE
    With(readString(buf, key.p), LAMBDA value :
        IF value.st # "ok" THEN Rd(value.st, acc, value.p)
        ELSE readEntries(buf, value.p, entries - 1, Append(acc, <<key.val, value.val>>))))

\* Dictionary readDictionary(ptr)
readDictionary(buf, p) ==
    With(readIntAt(buf, p), LAMBDA entries :
        IF entries.st # "ok" THEN Rd(entries.st, <<>>, p)
        ELSE IF entries.val < 0 THEN Rd("length_error", <<>>, entries.p)
        ELSE readEntries(buf, entries.p, entries.val, <<>>))

RECURSIVE readDictionaries(_, _, _, _)
\* node.frame_attributes[i] = readDictionary(&ptr), i < numOfFrames
readDictionaries(buf, p, n, acc) ==
    IF n <= 0 THEN Rd("ok", acc, p) ELSE
    With(readDictionary(buf, p), LAMBDA d :
        IF d.st # "ok" THEN Rd(d.st, acc, d.p)
        ELSE readDictionaries(buf, d.p, n - 1, Append(acc, d.val)))

RECURSIVE readInts(_, _, _, _)
\* node.childNodeIds[i] = readInt(ptr); ptr += 4, i < numOfChildren
readInts(buf, p, n, acc) ==
    IF n <= 0 THEN Rd("ok", acc, p) ELSE
    With(readIntAt(buf, p), LAMBDA v :
        IF v.st # "ok" THEN Rd(v.st, acc, v.p)
        ELSE readInts(buf, v.p, n - 1, Append(acc, v.val)))

RECURSIVE readShapeModels(_, _, _, _)
\* node.models[i].modelId = readInt(ptr); node.models[i].attributes = readDictionary(&ptr)
readShapeModels(buf, p, n, acc) ==
    IF n <= 0 THEN Rd("ok", acc, p) ELSE
    With(readIntAt(buf, p), LAMBDA id :
        IF id.st # "ok" THEN Rd(id.st, acc, id.p) ELSE
    With(readDictionary(buf, id.p), LAMBDA d :
        IF d.st # "ok" THEN Rd(d.st, acc, d.p)
        ELSE readShapeModels(buf, d.p, n - 1,
                             Append(acc, [modelId |-> id.val, attributes |-> d.val]))))

---------------------------------------------------------------------------
(* SceneGraph: std::vector<std::unique_ptr<Node>> nodes                    *)

TRANSFORM == "TRANSFORM"
GROUP     == "GROUP"
SHAPE     == "SHAPE"

\* an empty unique_ptr
NullNode == [type |-> "null"]
IsNull(n) == n.type = "null"

\* new NODE(): the type is set by the constructor, the vectors are empty and the
\* integer members (childNodeId, layerId) hold no value yet (set = FALSE)
NewNode(type) ==
    [type |-> type, attributes |-> <<>>, childNodeId |-> 0, layerId |-> 0,
     frame_attributes |-> <<>>, childNodeIds |-> <<>>, models |-> <<>>, set |-> FALSE]

\* nodes.resize(n)
ResizeTo(seq, n, fill) ==
    [i \in 1..n |-> IF i <= Len(seq) THEN seq[i] ELSE fill]

\* if (id >= nodes.size()) { nodes.resize(id + 1); }   (id is converted to size_t)
addNodeGrow(nodes, id) ==
    IF id >= Len(nodes) THEN ResizeTo(nodes, id + 1, NullNode) ELSE nodes

\* addNode without its test of the slot
addNodeOccupied_never(nodes, id) == FALSE

\* if (nodes[id]) throw ...
addNodeOccupied(nodes, id) == ~IsNull(nodes[id + 1])

\* template <typename NODE> NODE& SceneGraph::addNode(NodeId id)
\* [st, nodes]: "ok", "duplicate", "length_error" (id < -1: resize of a huge
\* size) or "undefined" (id = -1: resize(0), then nodes[-1])
addNode(nodes, id, type) ==
    IF id < -1 THEN [st |-> "length_error", nodes |-> nodes]
    ELSE IF id = -1 THEN [st |-> "undefined", nodes |-> <<>>]
    ELSE With(addNodeGrow(nodes, id), LAMBDA grown :
             IF addNodeOccupied(grown, id)
             THEN [st |-> "duplicate", nodes |-> grown]
             ELSE [st |-> "ok", nodes |-> [grown EXCEPT ![id + 1] = NewNode(type)]])

\* const Node SceneGraph::GetNode(NodeId id) const
GetNode(nodes, id) ==
    IF id < 0 \/ id >= Len(nodes) THEN NullNode ELSE nodes[id + 1]

\* The three readers return [st, nodes]; st is "ok", "duplicate", "reserved",
\* "length_error" or "undefined".  A node inserted by addNode stays in the
\* storage when a later read of the same chunk fails.
NodeRes(st, nodes) == [st |-> st, nodes |-> nodes]

\* void SceneGraph::readTransformNode(ptr)
readTransformNode(nodes, buf) ==
    With(readIntAt(buf, 0), LAMBDA id :
        IF id.st # "ok" THEN NodeRes(id.st, nodes) ELSE
    With(addNode(nodes, id.val, TRANSFORM), LAMBDA added :
        IF added.st # "ok" THEN NodeRes(added.st, added.nodes) ELSE
    With(readDictionary(buf, id.p), LAMBDA attrs :
        IF attrs.st # "ok" THEN NodeRes(attrs.st, added.nodes) ELSE
    With([added.nodes EXCEPT ![id.val + 1].attributes = attrs.val], LAMBDA n1 :
    With(readIntAt(buf, attrs.p), LAMBDA child :
        IF child.st # "ok" THEN NodeRes(child.st, n1) ELSE
    With([n1 EXCEPT ![id.val + 1].childNodeId = child.val], LAMBDA n2 :
    With(readIntAt(buf, child.p), LAMBDA reserved :
        IF reserved.st # "ok" THEN NodeRes(reserved.st, n2) ELSE
        IF reserved.val # -1 THEN NodeRes("reserved", n2) ELSE
    With(readIntAt(buf, reserved.p), LAMBDA layer :
        IF layer.st # "ok" THEN NodeRes(layer.st, n2) ELSE
    With([n2 EXCEPT ![id.val + 1].layerId = layer.val, ![id.val + 1].set = TRUE],
         LAMBDA n3 :
    With(readIntAt(buf, layer.p), LAMBDA frames :
        IF frames.st # "ok" THEN NodeRes(frames.st, n3) ELSE
        IF frames.val < 0 THEN NodeRes("length_error", n3) ELSE
    With(readDictionaries(buf, frames.p, frames.val, <<>>), LAMBDA fa :
        IF fa.st # "ok" THEN NodeRes(fa.st, n3)
        ELSE NodeRes("ok", [n3 EXCEPT ![id.val + 1].frame_attributes = fa.val]))))))))))))

\* void SceneGraph::readGroupNode(ptr)
readGroupNode(nodes, buf) ==
    With(readIntAt(buf, 0), LAMBDA id :
        IF id.st # "ok" THEN NodeRes(id.st, nodes) ELSE
    With(addNode(nodes, id.val, GROUP), LAMBDA added :
        IF added.st # "ok" THEN NodeRes(added.st, added.nodes) ELSE
    With(readDictionary(buf, id.p), LAMBDA attrs :
        IF attrs.st # "ok" THEN NodeRes(attrs.st, added.nodes) ELSE
    With([added.nodes EXCEPT ![id.val + 1].attributes = attrs.val,
                             ![id.val + 1].set = TRUE], LAMBDA n1 :
    With(readIntAt(buf, attrs.p), LAMBDA count :
        IF count.st # "ok" THEN NodeRes(count.st, n1) ELSE
        IF count.val < 0 THEN NodeRes("length_error", n1) ELSE
    With(readInts(buf, count.p, count.val, <<>>), LAMBDA ids :
        IF ids.st # "ok" THEN NodeRes(ids.st, n1)
        ELSE NodeRes("ok", [n1 EXCEPT ![id.val + 1].childNodeIds = ids.val])))))))

\* void SceneGraph::readShapeNode(ptr)
readShapeNode(nodes, buf) ==
    With(readIntAt(buf, 0), LAMBDA id :
        IF id.st # "ok" THEN NodeRes(id.st, nodes) ELSE
    With(addNode(nodes, id.val, SHAPE), LAMBDA added :
        IF added.st # "ok" THEN NodeRes(added.st, added.nodes) ELSE
    With(readDictionary(buf, id.p), LAMBDA attrs :
        IF attrs.st # "ok" THEN NodeRes(attrs.st, added.nodes) ELSE
    With([added.nodes EXCEPT ![id.val + 1].attributes = attrs.val,
                             ![id.val + 1].set = TRUE], LAMBDA n1 :
    With(readIntAt(buf, attrs.p), LAMBDA count :
        IF count.st # "ok" THEN NodeRes(count.st, n1) ELSE
        IF count.val < 0 THEN NodeRes("length_error", n1) ELSE
    With(readShapeModels(buf, count.p, count.val, <<>>), LAMBDA ms :
        IF ms.st # "ok" THEN NodeRes(ms.st, n1)
        ELSE NodeRes("ok", [n1 EXCEPT ![id.val + 1].models = ms.val])))))))

---------------------------------------------------------------------------
(* Model::Model(const Chunk &sizeChunk, const Chunk &xyziChunk)            *)

Voxel(x, y, z, colorIndex) == [x |-> x, y |-> y, z |-> z, colorIndex |-> colorIndex]

\* for (i = 1; i <= voxelCount; i++) voxels.push_back(Voxel(content[4i], .., content[4i + 3]))
ModelVoxels(content, voxelCount) ==
    [i \in 1..voxelCount |->
        Voxel(content[4 * i + 1], content[4 * i + 2], content[4 * i + 3], content[4 * i + 4])]

\* [st, model]: "undefined" when a read leaves the content of either chunk.  The
\* uint32 members are kept as the int readInt returns; a negative voxelCount is a
\* count above 2^31, which no content holds.
Model(sizeChunk, xyziChunk) ==
    IF ~InBuf(sizeChunk.content, 0, 12) \/ ~InBuf(xyziChunk.content, 0, 4)
    THEN [st |-> "undefined", model |-> <<>>]
    ELSE With(readInt(xyziChunk.content, 0), LAMBDA voxelCount :
             IF voxelCount < 0 \/ ~InBuf(xyziChunk.content, 4, 4 * voxelCount)
             THEN [st |-> "undefined", model |-> <<>>]
             ELSE [st |-> "ok",
                   model |-> [sizeX  |-> readInt(sizeChunk.content, 0),
                              sizeY  |-> readInt(sizeChunk.content, 4),
                              sizeZ  |-> readInt(sizeChunk.content, 8),
                              voxels |-> ModelVoxels(xyziChunk.content, voxelCount)]])

---------------------------------------------------------------------------
(* The VoxReader object and the heap of palette tables                     *)

\* std::vector<RGBA> *palette: 0 is &DEFAULT_PALETTE, k > 0 is heap[k]
DefaultPtr == 0

FreshVox ==
    [models |-> <<>>, palette |-> DefaultPtr, nodes |-> <<>>,
     layers |-> <<>>, materials |-> <<>>]

\* struct RGBA { uint8_t r, g, b, a; }: memcpy lays 4 content bytes over one entry
PaletteEntry(content, i) ==
    [r |-> content[4 * i + 1], g |-> content[4 * i + 2],
     b |-> content[4 * i + 3], a |-> content[4 * i + 4]]

\* palette = new std::vector<RGBA>; palette->resize(256); memcpy(.., 4 * 256)
NewPalette(content) == [i \in 1..PaletteSize |-> PaletteEntry(content, i - 1)]

\* RGBA::unpack(uint32_t color), the color given by its four bytes, highest first
Unpack(b3, b2, b1, b0) == [r |-> b2, g |-> b1, b |-> b0, a |-> b3]

---------------------------------------------------------------------------
(* One iteration of the loop of VoxReader::load over main.children.        *)
(* A machine state is [vox, heap, dflt, iter, st]: dflt is the table       *)
(* DEFAULT_PALETTE, st is "run" while the loop goes on, else the exception *)
(* thrown or "undefined".                                                  *)

Mach(v, h, d, i, st) == [vox |-> v, heap |-> h, dflt |-> d, iter |-> i, st |-> st]

\* the exception a failed read of a node, layer or material chunk raises
Thrown(st) ==
    CASE st = "duplicate"    -> "SceneGraph node duplicate!"
      [] st = "reserved"     -> "Expectation not met: reserved id must be -1"
      [] st = "length_error" -> "length_error"
      [] OTHER               -> st

\* if (!strcmp(iter->id, "SIZE")) { size = iter++; xyzi = iter++; models.push_back(Model(..)) }
DispatchSize(m, ch) ==
    IF m.iter + 1 > Len(ch) THEN Mach(m.vox, m.heap, m.dflt, m.iter + 2, "undefined")
    ELSE With(Model(ch[m.iter], ch[m.iter + 1]), LAMBDA r :
             IF r.st # "ok" THEN Mach(m.vox, m.heap, m.dflt, m.iter + 2, r.st)
             ELSE Mach([m.vox EXCEPT !.models = Append(@, r.model)], m.heap,
                       m.dflt, m.iter + 2, "run"))

\* new std::vector<RGBA>; resize(256): a fresh table of RGBA() entries.  [heap, ptr]
AllocPalette(h) ==
    [heap |-> Append(h, [table |-> [i \in 1..PaletteSize |->
                                       [r |-> 0, g |-> 0, b |-> 0, a |-> 0]],
                         live  |-> TRUE]),
     ptr  |-> Len(h) + 1]

\* memcpy(&(*ptr)[0], content, 4 * 256): the table ptr points to is overwritten,
\* be it a heap table or DEFAULT_PALETTE.  [heap, dflt]
WritePalette(h, d, ptr, content) ==
    IF ptr = DefaultPtr THEN [heap |-> h, dflt |-> NewPalette(content)]
    ELSE [heap |-> [h EXCEPT ![ptr].table = NewPalette(content)], dflt |-> d]

\* the table vox.palette points to
PaletteOf(v, h, d) == IF v.palette = DefaultPtr THEN d ELSE h[v.palette].table

\* else if (!strcmp(iter->id, "RGBA")) { rgba = iter++; palette = new ..; memcpy(..) }
DispatchRgba(m, ch) ==
    With(AllocPalette(m.heap), LAMBDA new :
        IF ~InBuf(ch[m.iter].content, 0, 4 * PaletteSize)
        THEN Mach([m.vox EXCEPT !.palette = new.ptr], new.heap, m.dflt, m.iter + 1,
                  "undefined")
        ELSE With(WritePalette(new.heap, m.dflt, new.ptr, ch[m.iter].content), LAMBDA w :
                 Mach([m.vox EXCEPT !.palette = new.ptr], w.heap, w.dflt, m.iter + 1,
                      "run")))

\* how far the cursor moves over a node chunk: the argument's iter++ and the
\* trailing ++iter for nTRN and nGRP, the trailing ++iter alone for nSHP
NodeAdvance(id) == IF StrEq(id, TagNSHP) THEN 1 ELSE 2

\* the reader a node chunk is handed to, or throw std::runtime_error("Unknown node!")
ReadNode(nodes, c) ==
    IF StrEq(c.id, TagNTRN) THEN readTransformNode(nodes, c.content)
    ELSE IF StrEq(c.id, TagNGRP) THEN readGroupNode(nodes, c.content)
    ELSE IF StrEq(c.id, TagNSHP) THEN readShapeNode(nodes, c.content)
    ELSE NodeRes("Unknown node!", nodes)

\* else if (iter->id[0] == 'n') { ... ++iter; }
DispatchNode(m, ch) ==
    With(ReadNode(m.vox.nodes, ch[m.iter]), LAMBDA r :
        Mach([m.vox EXCEPT !.nodes = r.nodes], m.heap, m.dflt,
             IF r.st = "ok" THEN m.iter + NodeAdvance(ch[m.iter].id) ELSE m.iter,
             IF r.st = "ok" THEN "run" ELSE Thrown(r.st)))

\* if (id <= table.size()) { table.resize(id + 1); }   (id is converted to size_t)
TableResize(table, id) ==
    IF id >= 0 /\ id <= Len(table) THEN ResizeTo(table, id + 1, <<>>) ELSE table

\* LAYR and MATL: ptr = &(iter++)->content[0]; id = readInt(ptr); the resize;
\* table[id] = readDictionary(&ptr).  [st, table]
StoreById(table, content) ==
    With(readIntAt(content, 0), LAMBDA id :
        IF id.st # "ok" THEN [st |-> id.st, table |-> table] ELSE
    With(TableResize(table, id.val), LAMBDA t :
    With(readDictionary(content, id.p), LAMBDA d :
        IF d.st # "ok" THEN [st |-> d.st, table |-> t]
        ELSE IF id.val < 0 \/ id.val >= Len(t) THEN [st |-> "undefined", table |-> t]
        ELSE [st |-> "ok", table |-> [t EXCEPT ![id.val + 1] = d.val]])))

DispatchLayer(m, ch) ==
    With(StoreById(m.vox.layers, ch[m.iter].content), LAMBDA r :
        Mach([m.vox EXCEPT !.layers = r.table], m.heap, m.dflt, m.iter + 1,
             IF r.st = "ok" THEN "run" ELSE Thrown(r.st)))

DispatchMaterial(m, ch) ==
    With(StoreById(m.vox.materials, ch[m.iter].content), LAMBDA r :
        Mach([m.vox EXCEPT !.materials = r.table], m.heap, m.dflt, m.iter + 1,
             IF r.st = "ok" THEN "run" ELSE Thrown(r.st)))

\* the body of while (iter != main.children.end()), for iter inside the list
Dispatch(m, ch) ==
    IF StrEq(ch[m.iter].id, TagSIZE) THEN DispatchSize(m, ch)
    ELSE IF StrEq(ch[m.iter].id, TagRGBA) THEN DispatchRgba(m, ch)
    ELSE IF ch[m.iter].id[1] = ChN THEN DispatchNode(m, ch)
    ELSE IF StrEq(ch[m.iter].id, TagLAYR) THEN DispatchLayer(m, ch)
    ELSE IF StrEq(ch[m.iter].id, TagMATL) THEN DispatchMaterial(m, ch)
    ELSE Mach(m.vox, m.heap, m.dflt, m.iter + 1, "run")

\* The loop from cursor m.iter to its end: "ok" when iter reaches end().  A cursor
\* past end() never equals end(): the loop goes on over memory outside the list.
RECURSIVE RunLoop(_, _)
RunLoop(m, ch) ==
    IF m.st # "run" THEN m
    ELSE IF m.iter = Len(ch) + 1 THEN [m EXCEPT !.st = "ok"]
    ELSE IF m.iter > Len(ch) + 1 THEN [m EXCEPT !.st = "undefined"]
    ELSE RunLoop(Dispatch(m, ch), ch)

---------------------------------------------------------------------------
(* The start of VoxReader::load, up to the loop                            *)

\* models.clear(); if (palette != &DEFAULT_PALETTE) delete palette;
\* the pointer keeps its value.  [st, vox, heap]; deleting a freed table is undefined
ResetState(v, h) ==
    LET cleared == [v EXCEPT !.models = <<>>]
    IN  IF v.palette = DefaultPtr THEN [st |-> "ok", vox |-> cleared, heap |-> h]
        ELSE IF h[v.palette].live
        THEN [st |-> "ok", vox |-> cleared, heap |-> [h EXCEPT ![v.palette].live = FALSE]]
        ELSE [st |-> "undefined", vox |-> cleared, heap |-> h]

\* if (!strcmp(magic, "VOX ")) throw: magic is char[4] without a terminator, so
\* strcmp, once the four bytes agree, compares the byte after the array (tail)
\* with the literal's NUL
MagicThrows(magic, tail) == StrEq(magic \o <<tail>>, TagVOX \o <<0>>)

\* if (readInt(s) != 150) throw
VersionThrows(version) == version # Version

\* Chunk &pack = main.children[0]; if (!strcmp(pack.id, "PACK")) { readInt(..); iter++; }
\* [st, iter]
PackStep(ch) ==
    IF Len(ch) = 0 THEN [st |-> "undefined", iter |-> 1]
    ELSE IF StrEq(ch[1].id, TagPACK)
    THEN IF InBuf(ch[1].content, 0, 4) THEN [st |-> "run", iter |-> 2]
         ELSE [st |-> "undefined", iter |-> 2]
    ELSE [st |-> "run", iter |-> 1]

\* What load reads from the stream, in order: s.read(magic, 4), readInt(s) and
\* Chunk main(s).  The reads depend on the stream alone, not on the reader; g is
\* the value of the bytes a short read leaves unwritten.
ReadFile(data, g) ==
    [magic   |-> [i \in 1..4 |-> StreamByte(data, 0, i, g)],
     version |-> readIntStream(data, Advance(data, 0, 4), g),
     main    |-> Chunk(data, Advance(data, 0, 8), 0, g),
     short   |-> ShortRead(data, 0, 8)]

\* load from its first statement to the first test of the loop condition, on
\* what it reads (rd).  [st, vox, heap, iter, children]; st is "run", an exception
\* or "undefined"; tail is the byte after magic
LoadStart(v, h, good, rd, tail) ==
    IF ~good
    THEN [st |-> "Cannot read from stream", vox |-> v, heap |-> h, iter |-> 1,
          children |-> <<>>]
    ELSE
    With(ResetState(v, h), LAMBDA reset :
    LET out(st, it, ch) ==
            [st |-> st, vox |-> reset.vox, heap |-> reset.heap, iter |-> it,
             children |-> ch]
    IN  IF reset.st # "ok" THEN out(reset.st, 1, <<>>)
        ELSE IF MagicThrows(rd.magic, tail)
        THEN out("Magic string 'VOX ' is missing", 1, <<>>)
        ELSE IF VersionThrows(rd.version) THEN out("Version is not 150", 1, <<>>)
        ELSE IF rd.main.status # "ok" THEN out(rd.main.status, 1, <<>>)
        ELSE With(PackStep(rd.main.chunk.children), LAMBDA pack :
                 out(pack.st, pack.iter, rd.main.chunk.children)))

---------------------------------------------------------------------------
(* VoxReader::DEFAULT_PALETTE = makePalette(0x00000000, 0xffffffff, ...):  *)
(* the 256 colors of the source, each by its four bytes, highest first     *)

DefaultColors ==
    <<
    <<0, 0, 0, 0>>, <<255, 255, 255, 255>>, <<255, 204, 255, 255>>, <<255, 153, 255, 255>>, <<255, 102, 255, 255>>, <<255, 51, 255, 255>>,
    <<255, 0, 255, 255>>, <<255, 255, 204, 255>>, <<255, 204, 204, 255>>, <<255, 153, 204, 255>>, <<255, 102, 204, 255>>, <<255, 51, 204, 255>>,
    <<255, 0, 204, 255>>, <<255, 255, 153, 255>>, <<255, 204, 153, 255>>, <<255, 153, 153, 255>>, <<255, 102, 153, 255>>, <<255, 51, 153, 255>>,
    <<255, 0, 153, 255>>, <<255, 255, 102, 255>>, <<255, 204, 102, 255>>, <<255, 153, 102, 255>>, <<255, 102, 102, 255>>, <<255, 51, 102, 255>>,
    <<255, 0, 102, 255>>, <<255, 255, 51, 255>>, <<255, 204, 51, 255>>, <<255, 153, 51, 255>>, <<255, 102, 51, 255>>, <<255, 51, 51, 255>>,
    <<255, 0, 51, 255>>, <<255, 255, 0, 255>>, <<255, 204, 0, 255>>, <<255, 153, 0, 255>>, <<255, 102, 0, 255>>, <<255, 51, 0, 255>>,
    <<255, 0, 0, 255>>, <<255, 255, 255, 204>>, <<255, 204, 255, 204>>, <<255, 153, 255, 204>>, <<255, 102, 255, 204>>, <<255, 51, 255, 204>>,
    <<255, 0, 255, 204>>, <<255, 255, 204, 204>>, <<255, 204, 204, 204>>, <<255, 153, 204, 204>>, <<255, 102, 204, 204>>, <<255, 51, 204, 204>>,
    <<255, 0, 204, 204>>, <<255, 255, 153, 204>>, <<255, 204, 153, 204>>, <<255, 153, 153, 204>>, <<255, 102, 153, 204>>, <<255, 51, 153, 204>>,
    <<255, 0, 153, 204>>, <<255, 255, 102, 204>>, <<255, 204, 102, 204>>, <<255, 153, 102, 204>>, <<255, 102, 102, 204>>, <<255, 51, 102, 204>>,
    <<255, 0, 102, 204>>, <<255, 255, 51, 204>>, <<255, 204, 51, 204>>, <<255, 153, 51, 204>>, <<255, 102, 51, 204>>, <<255, 51, 51, 204>>,
    <<255, 0, 51, 204>>, <<255, 255, 0, 204>>, <<255, 204, 0, 204>>, <<255, 153, 0, 204>>, <<255, 102, 0, 204>>, <<255, 51, 0, 204>>,
    <<255, 0, 0, 204>>, <<255, 255, 255, 153>>, <<255, 204, 255, 153>>, <<255, 153, 255, 153>>, <<255, 102, 255, 153>>, <<255, 51, 255, 153>>,
    <<255, 0, 255, 153>>, <<255, 255, 204, 153>>, <<255, 204, 204, 153>>, <<255, 153, 204, 153>>, <<255, 102, 204, 153>>, <<255, 51, 204, 153>>,
    <<255, 0, 204, 153>>, <<255, 255, 153, 153>>, <<255, 204, 153, 153>>, <<255, 153, 153, 153>>, <<255, 102, 153, 153>>, <<255, 51, 153, 153>>,
    <<255, 0, 153, 153>>, <<255, 255, 102, 153>>, <<255, 204, 102, 153>>, <<255, 153, 102, 153>>, <<255, 102, 102, 153>>, <<255, 51, 102, 153>>,
    <<255, 0, 102, 153>>, <<255, 255, 51, 153>>, <<255, 204, 51, 153>>, <<255, 153, 51, 153>>, <<255, 102, 51, 153>>, <<255, 51, 51, 153>>,
    <<255, 0, 51, 153>>, <<255, 255, 0, 153>>, <<255, 204, 0, 153>>, <<255, 153, 0, 153>>, <<255, 102, 0, 153>>, <<255, 51, 0, 153>>,
    <<255, 0, 0, 153>>, <<255, 255, 255, 102>>, <<255, 204, 255, 102>>, <<255, 153, 255, 102>>, <<255, 102, 255, 102>>, <<255, 51, 255, 102>>,
    <<255, 0, 255, 102>>, <<255, 255, 204, 102>>, <<255, 204, 204, 102>>, <<255, 153, 204, 102>>, <<255, 102, 204, 102>>, <<255, 51, 204, 102>>,
    <<255, 0, 204, 102>>, <<255, 255, 153, 102>>, <<255, 204, 153, 102>>, <<255, 153, 153, 102>>, <<255, 102, 153, 102>>, <<255, 51, 153, 102>>,
    <<255, 0, 153, 102>>, <<255, 255, 102, 102>>, <<255, 204, 102, 102>>, <<255, 153, 102, 102>>, <<255, 102, 102, 102>>, <<255, 51, 102, 102>>,
    <<255, 0, 102, 102>>, <<255, 255, 51, 102>>, <<255, 204, 51, 102>>, <<255, 153, 51, 102>>, <<255, 102, 51, 102>>, <<255, 51, 51, 102>>,
    <<255, 0, 51, 102>>, <<255, 255, 0, 102>>, <<255, 204, 0, 102>>, <<255, 153, 0, 102>>, <<255, 102, 0, 102>>, <<255, 51, 0, 102>>,
    <<255, 0, 0, 102>>, <<255, 255, 255, 51>>, <<255, 204, 255, 51>>, <<255, 153, 255, 51>>, <<255, 102, 255, 51>>, <<255, 51, 255, 51>>,
    <<255, 0, 255, 51>>, <<255, 255, 204, 51>>, <<255, 204, 204, 51>>, <<255, 153, 204, 51>>, <<255, 102, 204, 51>>, <<255, 51, 204, 51>>,
    <<255, 0, 204, 51>>, <<255, 255, 153, 51>>, <<255, 204, 153, 51>>, <<255, 153, 153, 51>>, <<255, 102, 153, 51>>, <<255, 51, 153, 51>>,
    <<255, 0, 153, 51>>, <<255, 255, 102, 51>>, <<255, 204, 102, 51>>, <<255, 153, 102, 51>>, <<255, 102, 102, 51>>, <<255, 51, 102, 51>>,
    <<255, 0, 102, 51>>, <<255, 255, 51, 51>>, <<255, 204, 51, 51>>, <<255, 153, 51, 51>>, <<255, 102, 51, 51>>, <<255, 51, 51, 51>>,
    <<255, 0, 51, 51>>, <<255, 255, 0, 51>>, <<255, 204, 0, 51>>, <<255, 153, 0, 51>>, <<255, 102, 0, 51>>, <<255, 51, 0, 51>>,
    <<255, 0, 0, 51>>, <<255, 255, 255, 0>>, <<255, 204, 255, 0>>, <<255, 153, 255, 0>>, <<255, 102, 255, 0>>, <<255, 51, 255, 0>>,
    <<255, 0, 255, 0>>, <<255, 255, 204, 0>>, <<255, 204, 204, 0>>, <<255, 153, 204, 0>>, <<255, 102, 204, 0>>, <<255, 51, 204, 0>>,
    <<255, 0, 204, 0>>, <<255, 255, 153, 0>>, <<255, 204, 153, 0>>, <<255, 153, 153, 0>>, <<255, 102, 153, 0>>, <<255, 51, 153, 0>>,
    <<255, 0, 153, 0>>, <<255, 255, 102, 0>>, <<255, 204, 102, 0>>, <<255, 153, 102, 0>>, <<255, 102, 102, 0>>, <<255, 51, 102, 0>>,
    <<255, 0, 102, 0>>, <<255, 255, 51, 0>>, <<255, 204, 51, 0>>, <<255, 153, 51, 0>>, <<255, 102, 51, 0>>, <<255, 51, 51, 0>>,
    <<255, 0, 51, 0>>, <<255, 255, 0, 0>>, <<255, 204, 0, 0>>, <<255, 153, 0, 0>>, <<255, 102, 0, 0>>, <<255, 51, 0, 0>>,
    <<255, 0, 0, 238>>, <<255, 0, 0, 221>>, <<255, 0, 0, 187>>, <<255, 0, 0, 170>>, <<255, 0, 0, 136>>, <<255, 0, 0, 119>>,
    <<255, 0, 0, 85>>, <<255, 0, 0, 68>>, <<255, 0, 0, 34>>, <<255, 0, 0, 17>>, <<255, 0, 238, 0>>, <<255, 0, 221, 0>>,
    <<255, 0, 187, 0>>, <<255, 0, 170, 0>>, <<255, 0, 136, 0>>, <<255, 0, 119, 0>>, <<255, 0, 85, 0>>, <<255, 0, 68, 0>>,
    <<255, 0, 34, 0>>, <<255, 0, 17, 0>>, <<255, 238, 0, 0>>, <<255, 221, 0, 0>>, <<255, 187, 0, 0>>, <<255, 170, 0, 0>>,
    <<255, 136, 0, 0>>, <<255, 119, 0, 0>>, <<255, 85, 0, 0>>, <<255, 68, 0, 0>>, <<255, 34, 0, 0>>, <<255, 17, 0, 0>>,
    <<255, 238, 238, 238>>, <<255, 221, 221, 221>>, <<255, 187, 187, 187>>, <<255, 170, 170, 170>>, <<255, 136, 136, 136>>, <<255, 119, 119, 119>>,
    <<255, 85, 85, 85>>, <<255, 68, 68, 68>>, <<255, 34, 34, 34>>, <<255, 17, 17, 17>>
    >>

DefaultTable == [i \in 1..PaletteSize |->
    Unpack(DefaultColors[i][1], DefaultColors[i][2], DefaultColors[i][3], DefaultColors[i][4])]

---------------------------------------------------------------------------
(* Input streams: encoders of the file format, used to build the inputs    *)

RECURSIVE Flatten(_)
Flatten(ss) == IF ss = <<>> THEN <<>> ELSE Head(ss) \o Flatten(Tail(ss))

\* 4 little-endian bytes of a 32-bit int
EncInt(n) == <<n % 256, (n \div 256) % 256, (n \div 65536) % 256, (n \div 16777216) % 256>>

EncString(str) == EncInt(Len(str)) \o str

EncDict(d) == EncInt(Len(d)) \o Flatten([i \in 1..Len(d) |-> EncString(d[i][1]) \o EncString(d[i][2])])

\* a chunk: id, content size, children size, content, children
EncChunk(id, content, kids) ==
    id \o EncInt(Len(content)) \o EncInt(Len(kids)) \o content \o kids

EncStream(magic, version, kids) ==
    magic \o EncInt(version) \o EncChunk(TagMAIN, <<>>, kids)

DictA == <<>>
DictB == << <<(<<107>>), (<<118>>)>> >>

\* the chunks the inputs are built from
CPack  == EncChunk(TagPACK, EncInt(1), <<>>)
CSize  == EncChunk(TagSIZE, EncInt(2) \o EncInt(1) \o EncInt(1), <<>>)
CXyzi  == EncChunk(TagXYZI, EncInt(1) \o <<0, 0, 0, 5>>, <<>>)
\* 256 colors: entry i is (r, g, b, a) = (i, 2i mod 256, 255 - i, 255)
RgbaByte(k) ==
    LET i == (k - 1) \div 4
        c == (k - 1) % 4
    IN  CASE c = 0 -> i
          [] c = 1 -> (2 * i) % 256
          [] c = 2 -> 255 - i
          [] OTHER -> 255
CRgba  == EncChunk(TagRGBA, [k \in 1..(4 * PaletteSize) |-> RgbaByte(k)], <<>>)
\* a chunk of an unknown kind whose content reads as one voxel record
COther == EncChunk(<<88, 88, 88, 88>>, EncInt(1) \o <<1, 0, 0, 7>>, <<>>)
CTrn(id, reserved) ==
    EncChunk(TagNTRN, EncInt(id) \o EncDict(DictB) \o EncInt(1) \o EncInt(reserved)
                      \o EncInt(0) \o EncInt(1) \o EncDict(DictA), <<>>)
CGrp(id) == EncChunk(TagNGRP, EncInt(id) \o EncDict(DictA) \o EncInt(1) \o EncInt(2), <<>>)
CShp(id) == EncChunk(TagNSHP, EncInt(id) \o EncDict(DictA) \o EncInt(1) \o EncInt(0)
                              \o EncDict(DictB), <<>>)
CUnknownNode == EncChunk(<<110, 88, 88, 88>>, EncInt(0), <<>>)
CLayr(id, d) == EncChunk(TagLAYR, EncInt(id) \o EncDict(d), <<>>)
CMatl(id, d) == EncChunk(TagMATL, EncInt(id) \o EncDict(d), <<>>)

TopChunks ==
    {CPack, CSize, CXyzi, CRgba, COther, CTrn(0, -1), CShp(0), CLayr(0, DictB)}

\* the lists of at most n chunks over a set of chunks
ChunkLists(S, n) == UNION {[1..k -> S] : k \in 0..n}

\* the values of memory the code reads without having written it
Garbage == {0, 255}

\* an input of load: whether the stream is good, its number of top-level chunks
\* and what load reads from it
In(good, data, n, g) == [good |-> good, n |-> n, rd |-> ReadFile(data, g)]

\* files over a set of chunks: a magic of M, a version of V and a MAIN chunk with
\* at most MaxChunks of the chunks as children
FilesWith(M, V, S) ==
    {In(TRUE, EncStream(magic, version, Flatten(cs)), Len(cs), 0) :
        magic \in M, version \in V, cs \in ChunkLists(S, MaxChunks)}

\* well-formed files: the magic "VOX " and version 150
Files(S) == FilesWith({TagVOX}, {Version}, S)

\* a stream that is not good() when load is called
BadStream == [good |-> FALSE, n |-> 0, rd |-> ReadFile(<<>>, 0)]

\* files of every kind of chunk
SceneInputs == Files(TopChunks) \cup {BadStream}

\* scene graph files
NodeChunks == {CTrn(0, -1), CGrp(1), CShp(0), CShp(1), CUnknownNode, CTrn(1, 0)}
NodeInputs == Files(NodeChunks)

\* files of layers and materials
TableChunks ==
    {CLayr(0, DictA), CLayr(0, DictB), CLayr(1, DictB), CMatl(0, DictB), CMatl(2, DictA)}
TableInputs == Files(TableChunks)

\* files with a right or wrong magic ("XOX ", "VOX" and a NUL) and version
Magics   == {TagVOX, <<88, 79, 88, 32>>, <<86, 79, 88, 0>>}
Versions == {Version, Version + 1}
HeaderInputs == FilesWith(Magics, Versions, {CSize, CXyzi, CShp(0)})

\* well-formed files cut short somewhere after the version
Prefixes(in) ==
    {In(TRUE, SubSeq(in, 1, k), 0, g) : k \in 8..(Len(in) - 1), g \in Garbage}
TruncChunks == {CSize, CXyzi}
TruncInputs ==
    UNION {{[p EXCEPT !.n = Len(cs)] :
                p \in Prefixes(EncStream(TagVOX, Version, Flatten(cs)))} :
           cs \in ChunkLists(TruncChunks, MaxChunks)}

\* well-formed chunk trees for the decoder alone: every chunk declares the sizes
\* its content and its children take in the stream.  Leaves, chunks with at most
\* MaxKids leaves as children, and chunks with one such chunk as their child.
TagLeaf == <<76, 69, 65, 70>>
ContentSizes == {0, 4, 12}
Leaves == {EncChunk(TagLeaf, [i \in 1..n |-> i], <<>>) : n \in ContentSizes}
Level(T) ==
    {EncChunk(TagMAIN, [i \in 1..n |-> i], Flatten(ks)) :
        n \in ContentSizes, ks \in UNION {[1..k -> T] : k \in 1..MaxKids}}
Nest(T) == {EncChunk(TagMAIN, [i \in 1..n |-> i], t) : n \in ContentSizes, t \in T}
ChunkTrees == Leaves \cup Level(Leaves) \cup Nest(Level(Leaves))
\* values of the running offset before the chunk
Offsets == {0, 7}
\* the decodes of the trees: the offset before, the stream's length, the result
ChunkDecodes ==
    {[off0 |-> off0, len |-> Len(data), r |-> Chunk(data, 0, off0, 0)] :
        data \in ChunkTrees, off0 \in Offsets}

---------------------------------------------------------------------------
(* VoxReader::view2d(viewport, flags, modelIndex)                          *)

\* enum Viewport2d { XZ, XY, YZ }
XZ == 0
XY == 1
YZ == 2

\* static const uint8_t INVERT_UP = 0x1, FROM_BEHIND = 0x2, SWAP_AXIS = 0x4
INVERT_UP   == 1
FROM_BEHIND == 2
SWAP_AXIS   == 4

\* flags & f for a flag f of one bit
Flag(flags, f) == (flags \div f) % 2 = 1

\* the conversion of a uint32_t to uint8_t
UInt8(v) == v % 256

\* the values of a cell of the view: nullptr, or &voxel, the address of the
\* variable of "for (auto voxel : model.voxels)", which holds a copy of the
\* model's voxel and dies with its iteration
NullPtr == "nullptr"
LoopVar == "&voxel"

\* view.resize(model.sizeX); for (auto &xRow : view) xRow.resize(model.sizeZ);
EmptyView(model) == [i \in 1..model.sizeX |-> [j \in 1..model.sizeZ |-> NullPtr]]

\* auto comparator = [&](uint32_t vz, uint32_t vzOther)
comparator(flags, vz, vzOther) ==
    IF Flag(flags, FROM_BEHIND) THEN vz > vzOther ELSE vz < vzOther

\* return flags & INVERT_UP ? max - v - 1 : v;
invertUp(flags, v, max) == IF Flag(flags, INVERT_UP) THEN max - v - 1 ELSE v

\* return flags & FROM_BEHIND ? max - v - 1 : v;
fromBehind(flags, v, max) == IF Flag(flags, FROM_BEHIND) THEN max - v - 1 ELSE v

\* switch (viewport): uint8_t vx, vy, vz of a voxel, for a viewport of the enum
ViewCell(model, voxel, viewport, flags) ==
    CASE viewport = XZ ->
           [vx |-> UInt8(fromBehind(flags, voxel.x, model.sizeX)),
            vy |-> UInt8(invertUp(flags, voxel.z, model.sizeZ)), vz |-> voxel.y]
      [] viewport = XY ->
           [vx |-> UInt8(fromBehind(flags, voxel.x, model.sizeX)),
            vy |-> UInt8(invertUp(flags, voxel.y, model.sizeY)), vz |-> voxel.z]
      [] viewport = YZ ->
           [vx |-> UInt8(fromBehind(flags, voxel.y, model.sizeY)),
            vy |-> UInt8(invertUp(flags, voxel.z, model.sizeZ)), vz |-> voxel.x]

\* if (flags & SWAP_AXIS) std::swap(vx, vy);
SwapAxis(flags, c) ==
    IF Flag(flags, SWAP_AXIS) THEN [c EXCEPT !.vx = c.vy, !.vy = c.vx] ELSE c

\* vzOther = view[vx][vy]->y, ->z or ->x, by the viewport
DepthOf(voxel, viewport) ==
    CASE viewport = XZ -> voxel.y
      [] viewport = XY -> voxel.z
      [] viewport = YZ -> voxel.x

\* What a read through a cell's pointer finds.  Every pointer stored is &voxel
\* of an iteration that is over, so the read is undefined: with g = Slot the
\* storage of the loop variable is found as the loop left it (cur), else every
\* byte read is g
Slot == -1
ReadDead(g, cur) == IF g = Slot THEN cur ELSE Voxel(g, g, g, g)
DeadReads == {Slot} \cup Garbage

\* one iteration of the loop over model.voxels.  acc is [st, grid]
ViewVoxel(acc, model, voxel, viewport, flags, g) ==
    IF viewport \notin {XZ, XY, YZ} THEN [acc EXCEPT !.st = "Unkown 2D viewport"]
    ELSE With(SwapAxis(flags, ViewCell(model, voxel, viewport, flags)), LAMBDA c :
        IF c.vx >= Len(acc.grid) THEN [acc EXCEPT !.st = "undefined"]
        ELSE IF c.vy >= Len(acc.grid[c.vx + 1]) THEN [acc EXCEPT !.st = "undefined"]
        ELSE IF acc.grid[c.vx + 1][c.vy + 1] = NullPtr
        THEN [acc EXCEPT !.grid[c.vx + 1][c.vy + 1] = LoopVar]
        ELSE IF comparator(flags, c.vz, DepthOf(ReadDead(g, voxel), viewport))
        THEN [acc EXCEPT !.grid[c.vx + 1][c.vy + 1] = LoopVar]
        ELSE acc)

\* for (auto voxel : model.voxels), from the k-th voxel on
RECURSIVE ViewLoop(_, _, _, _, _, _)
ViewLoop(acc, model, k, viewport, flags, g) ==
    IF acc.st # "ok" \/ k > Len(model.voxels) THEN acc
    ELSE ViewLoop(ViewVoxel(acc, model, model.voxels[k], viewport, flags, g),
                  model, k + 1, viewport, flags, g)

\* no model: models[modelIndex] with modelIndex >= models.size()
NoModel == [sizeX |-> -1, sizeY |-> -1, sizeZ |-> -1, voxels |-> <<>>]

\* The call.  [st, grid, deref, model, viewport, flags]: st is "ok", the
\* exception or "undefined"; grid is the vector returned; deref is <<v>> for the
\* voxel v the caller reads through a cell that is not null, and <<>> when no
\* cell is; model is the local reference "const Model &model"
view2d(models, viewport, flags, modelIndex, g) ==
    IF modelIndex >= Len(models)
    THEN [st |-> "undefined", grid |-> <<>>, deref |-> <<>>, model |-> NoModel,
          viewport |-> viewport, flags |-> flags]
    ELSE With(models[modelIndex + 1], LAMBDA model :
         With(ViewLoop([st |-> "ok", grid |-> EmptyView(model)], model, 1,
                       viewport, flags, g), LAMBDA r :
            [st |-> r.st,
             grid |-> IF r.st = "ok" THEN r.grid ELSE <<>>,
             deref |-> IF model.voxels = <<>> THEN <<>>
                       ELSE <<ReadDead(g, model.voxels[Len(model.voxels)])>>,
             model |-> model, viewport |-> viewport, flags |-> flags]))

\* models for view2d: the voxels of a cube of 2 x 2 x 2, in lists of at most
\* MaxVoxels, under sizes that hold all, some or one of them
ViewVoxels ==
    {Voxel(x, y, z, 1 + x + 2 * y + 4 * z) : x \in 0..1, y \in 0..1, z \in 0..1}
VoxelLists == UNION {[1..k -> ViewVoxels] : k \in 0..MaxVoxels}
CXyziOf(vs) ==
    EncChunk(TagXYZI,
             EncInt(Len(vs)) \o Flatten([i \in 1..Len(vs) |->
                                           <<vs[i].x, vs[i].y, vs[i].z, vs[i].colorIndex>>]),
             <<>>)
CSizeOf(sz) == EncChunk(TagSIZE, EncInt(sz[1]) \o EncInt(sz[2]) \o EncInt(sz[3]), <<>>)
ViewSizes == {<<1, 1, 1>>, <<2, 1, 1>>, <<1, 2, 1>>, <<2, 2, 2>>, <<1, 2, 3>>}
ViewInputs ==
    {In(TRUE, EncStream(TagVOX, Version, CSizeOf(sz) \o CXyziOf(vs)), 2, 0) :
        sz \in ViewSizes, vs \in VoxelLists}

\* a viewport outside the enum, as a cast of an integer gives
Viewports == {XZ, XY, YZ, 3}
Flags == 0..7

---------------------------------------------------------------------------
(* RGBA::pack and RGBA::unpack.  A uint32_t is kept as its two 16-bit      *)
(* halves [hi, lo], its value being hi * 2^16 + lo.                        *)

Half == 65536
Word(hi, lo) == [hi |-> hi, lo |-> lo]

\* x & y and x | y on naturals
RECURSIVE BitAnd(_, _)
BitAnd(x, y) ==
    IF x = 0 \/ y = 0 THEN 0
    ELSE ((x % 2) * (y % 2)) + (2 * BitAnd(x \div 2, y \div 2))
RECURSIVE BitOr(_, _)
BitOr(x, y) ==
    IF x = 0 THEN y
    ELSE IF y = 0 THEN x
    ELSE (IF x % 2 = 1 \/ y % 2 = 1 THEN 1 ELSE 0) + (2 * BitOr(x \div 2, y \div 2))

\* the operators of the two functions at 32 bits: bits shifted out are lost
And32(v, w) == Word(BitAnd(v.hi, w.hi), BitAnd(v.lo, w.lo))
Or32(v, w)  == Word(BitOr(v.hi, w.hi), BitOr(v.lo, w.lo))
Shl32(v, n) ==
    IF n >= 16 THEN Word((v.lo * 2^(n - 16)) % Half, 0)
    ELSE Word((((v.hi * 2^n) % Half) + ((v.lo * 2^n) \div Half)) % Half,
              (v.lo * 2^n) % Half)
Shr32(v, n) ==
    IF n >= 16 THEN Word(0, v.hi \div (2^(n - 16)))
    ELSE Word(v.hi \div (2^n), (v.lo \div (2^n)) + ((v.hi % (2^n)) * 2^(16 - n)))

\* RGBA::RGBA(uint8_t a, uint8_t r, uint8_t g, uint8_t b)
RGBAOf(a, r, g, b) == [r |-> r, g |-> g, b |-> b, a |-> a]

\* the channels in the order b, g, r, a
pack_bgra(c) ==
    Or32(Or32(Or32(Shl32(Word(0, c.b), 24), Shl32(Word(0, c.g), 16)),
              Shl32(Word(0, c.r), 8)),
         Word(0, c.a))

\* uint32_t ret = (a << 24) | (r << 16) | (g << 8) | b;  The channels are
\* promoted to int; a << 24 sets the sign bit for a >= 128, and the conversion
\* to uint32_t keeps the bit pattern
pack(c) ==
    Or32(Or32(Or32(Shl32(Word(0, c.a), 24), Shl32(Word(0, c.r), 16)),
              Shl32(Word(0, c.g), 8)),
         Word(0, c.b))

\* a = (color & 0xFF000000) >> 24; r = (color & 0x00FF0000) >> 16;
\* g = (color & 0x0000FF00) >> 8;  b = color & 0x000000FF;  each assigned to
\* a uint8_t
unpack(packed) ==
    [a |-> UInt8(Shr32(And32(packed, Word(65280, 0)), 24).lo),
     r |-> UInt8(Shr32(And32(packed, Word(255, 0)), 16).lo),
     g |-> UInt8(Shr32(And32(packed, Word(0, 65280)), 8).lo),
     b |-> UInt8(And32(packed, Word(0, 255)).lo)]

\* channel values and halves of packed colors given to the two functions
Channels == {0, 1, 128, 255}
Halves == {0, 255, 256, 4660, 32768, 65535}

---------------------------------------------------------------------------
(* The reader as a state machine                                           *)

NoDecode == [off0 |-> 0, len |-> 0, r |-> [status |-> "none"]]
NoHdr == [magic |-> <<>>, version |-> 0, fail |-> FALSE]
NoView == [st |-> "none"]
NoColor == [st |-> "none"]

Init ==
    /\ vox = FreshVox
    /\ heap = <<>>
    /\ DEFAULT_PALETTE = DefaultTable
    /\ pc = "idle"
    /\ hdr = NoHdr
    /\ children = <<>>
    /\ iter = 1
    /\ result = "none"
    /\ fed = 0
    /\ decoded = NoDecode
    /\ view = NoView
    /\ color = NoColor

\* void VoxReader::load(std::istream &s), up to the loop, on an input of I
LoadBegin(I) ==
    /\ pc = "idle"
    /\ \E in \in I, tail \in Garbage :
         /\ fed + in.n <= MaxChunks
         /\ fed' = fed + in.n
         /\ hdr' = IF in.good
                   THEN [magic |-> in.rd.magic, version |-> in.rd.version,
                         fail |-> in.rd.short \/ in.rd.main.fail]
                   ELSE [NoHdr EXCEPT !.fail = TRUE]
         /\ \E s \in {LoadStart(vox, heap, in.good, in.rd, tail)} :
                /\ vox' = s.vox
                /\ heap' = s.heap
                /\ children' = s.children
                /\ iter' = s.iter
                /\ pc' = CASE s.st = "run" -> "loop"
                           [] s.st = "undefined" -> "undefined"
                           [] OTHER -> "idle"
                /\ result' = IF s.st = "run" THEN "none" ELSE s.st
    /\ UNCHANGED <<DEFAULT_PALETTE, decoded, view, color>>

\* one test of iter != main.children.end() and, when it holds, one loop body
LoopStep ==
    /\ pc = "loop"
    /\ IF iter = Len(children) + 1
       THEN /\ pc' = "idle"
            /\ result' = "ok"
            /\ UNCHANGED <<vox, heap, DEFAULT_PALETTE, iter>>
       ELSE IF iter > Len(children) + 1
       THEN /\ pc' = "undefined"
            /\ result' = "undefined"
            /\ UNCHANGED <<vox, heap, DEFAULT_PALETTE, iter>>
       ELSE \E m \in {Dispatch(Mach(vox, heap, DEFAULT_PALETTE, iter, "run"), children)} :
                /\ vox' = m.vox
                /\ heap' = m.heap
                /\ DEFAULT_PALETTE' = m.dflt
                /\ iter' = m.iter
                /\ pc' = CASE m.st = "run" -> "loop"
                           [] m.st = "undefined" -> "undefined"
                           [] OTHER -> "idle"
                /\ result' = IF m.st = "run" THEN "none" ELSE m.st
    /\ UNCHANGED <<hdr, children, fed, decoded, view, color>>

\* Chunk(s, &offset) on a stream holding one chunk tree
DecodeChunk ==
    /\ pc = "idle"
    /\ \E d \in ChunkDecodes : decoded' = d
    /\ UNCHANGED <<vox, heap, DEFAULT_PALETTE, pc, hdr, children, iter, result, fed,
                   view, color>>

\* a reader loading files of every kind of chunk
Next == LoadBegin(SceneInputs) \/ LoopStep
Spec == Init /\ [][Next]_vars

\* a reader loading scene graph files
NextNodes == LoadBegin(NodeInputs) \/ LoopStep
SpecNodes == Init /\ [][NextNodes]_vars

\* a reader loading files with right and wrong headers
NextHeader == LoadBegin(HeaderInputs) \/ LoopStep
SpecHeader == Init /\ [][NextHeader]_vars

\* a reader loading files cut short
NextTrunc == LoadBegin(TruncInputs) \/ LoopStep
SpecTrunc == Init /\ [][NextTrunc]_vars

\* a reader loading files of layers and materials
NextTables == LoadBegin(TableInputs) \/ LoopStep
SpecTables == Init /\ [][NextTables]_vars

\* the chunk decoder alone
NextChunk == DecodeChunk
SpecChunk == Init /\ [][NextChunk]_vars

\* VoxReader::~VoxReader(): if ((palette != nullptr) && (palette != &DEFAULT_PALETTE))
\* delete palette; deleting a table that was deleted before is undefined
Destroy ==
    /\ pc = "idle"
    /\ IF vox.palette = DefaultPtr
       THEN pc' = "destroyed" /\ heap' = heap
       ELSE IF heap[vox.palette].live
       THEN pc' = "destroyed" /\ heap' = [heap EXCEPT ![vox.palette].live = FALSE]
       ELSE pc' = "undefined" /\ heap' = heap
    /\ UNCHANGED <<vox, DEFAULT_PALETTE, hdr, children, iter, result, fed, decoded,
                   view, color>>

\* a reader loading files with and without a palette, destroyed at some point
PaletteChunks == {CRgba, CPack, CShp(0)}
PaletteInputs == Files(PaletteChunks) \cup {BadStream}
NextPalette == LoadBegin(PaletteInputs) \/ LoopStep \/ Destroy
SpecPalette == Init /\ [][NextPalette]_vars

\* a call of view2d on the reader as it stands; the caller then holds what the
\* call returned or threw
View2d ==
    /\ pc = "idle"
    /\ \E viewport \in Viewports, flags \in Flags, modelIndex \in 0..1, g \in DeadReads :
         \E r \in {view2d(vox.models, viewport, flags, modelIndex, g)} :
            /\ view' = r
            /\ pc' = IF r.st = "undefined" THEN "undefined" ELSE "viewed"
    /\ UNCHANGED <<vox, heap, DEFAULT_PALETTE, hdr, children, iter, result, fed, decoded,
                   color>>

\* the caller is done with the vector view2d returned by value
ViewRelease ==
    /\ pc = "viewed"
    /\ pc' = "idle"
    /\ view' = NoView
    /\ UNCHANGED <<vox, heap, DEFAULT_PALETTE, hdr, children, iter, result, fed, decoded,
                   color>>

\* a reader loading one model and viewed
NextView == LoadBegin(ViewInputs) \/ LoopStep \/ View2d \/ ViewRelease
SpecView == Init /\ [][NextView]_vars

\* RGBA(a, r, g, b).pack(), and the result unpacked again
PackColor ==
    /\ pc = "idle"
    /\ \E a \in Channels, r \in Channels, g \in Channels, b \in Channels :
         \E w \in {pack(RGBAOf(a, r, g, b))} :
            color' = [st |-> "packed", rgba |-> RGBAOf(a, r, g, b), word |-> w,
                      back |-> unpack(w)]
    /\ UNCHANGED <<vox, heap, DEFAULT_PALETTE, pc, hdr, children, iter, result, fed,
                   decoded, view>>

\* RGBA(color), and the result packed again
UnpackColor ==
    /\ pc = "idle"
    /\ \E hi \in Halves, lo \in Halves :
         \E c \in {unpack(Word(hi, lo))} :
            color' = [st |-> "unpacked", word |-> Word(hi, lo), rgba |-> c,
                      back |-> pack(c)]
    /\ UNCHANGED <<vox, heap, DEFAULT_PALETTE, pc, hdr, children, iter, result, fed,
                   decoded, view>>

\* colors packed and unpacked
NextColor == PackColor \/ UnpackColor
SpecColor == Init /\ [][NextColor]_vars

---------------------------------------------------------------------------
(* VoxReader::load of src/src/VoxReader.cpp, on the same reader state: it  *)
(* has the members models and palette, and its loop knows SIZE and RGBA    *)

\* load up to the loop.  Nothing is cleared.  Chunk main(s): with byteOffset ==
\* nullptr the constructor points byteOffset at rootByte, a variable of the if
\* block that is dead when the block ends, so every later *byteOffset is
\* undefined: with kept the storage is left alone and the chunks are those of
\* the stream, else the call is lost.  [st, vox, heap, iter, children]
LoadStartCpp(v, h, good, rd, tail, kept) ==
    LET out(st, it, ch) ==
            [st |-> st, vox |-> v, heap |-> h, iter |-> it, children |-> ch]
    IN  IF ~good THEN out("Cannot read from stream", 1, <<>>)
        ELSE IF MagicThrows(rd.magic, tail)
        THEN out("Magic string 'VOX ' is missing", 1, <<>>)
        ELSE IF VersionThrows(rd.version) THEN out("Version is not 150", 1, <<>>)
        ELSE IF ~kept THEN out("undefined", 1, <<>>)
        ELSE IF rd.main.status # "ok" THEN out(rd.main.status, 1, <<>>)
        ELSE With(PackStep(rd.main.chunk.children), LAMBDA first :
                 out(first.st, first.iter, rd.main.chunk.children))

\* the body of the loop: if SIZE {..} else if RGBA {..}, and no other branch
DispatchCpp(m, ch) ==
    IF StrEq(ch[m.iter].id, TagSIZE) THEN DispatchSize(m, ch)
    ELSE IF StrEq(ch[m.iter].id, TagRGBA) THEN DispatchRgba(m, ch)
    ELSE m

\* void VoxReader::load(std::istream &s) of VoxReader.cpp, up to the loop
LoadBeginCpp(I) ==
    /\ pc = "idle"
    /\ \E in \in I, tail \in Garbage, kept \in BOOLEAN :
         /\ fed + in.n <= MaxChunks
         /\ fed' = fed + in.n
         /\ hdr' = IF in.good
                   THEN [magic |-> in.rd.magic, version |-> in.rd.version,
                         fail |-> in.rd.short \/ in.rd.main.fail]
                   ELSE [NoHdr EXCEPT !.fail = TRUE]
         /\ \E s \in {LoadStartCpp(vox, heap, in.good, in.rd, tail, kept)} :
                /\ vox' = s.vox
                /\ heap' = s.heap
                /\ children' = s.children
                /\ iter' = s.iter
                /\ pc' = CASE s.st = "run" -> "cpp_loop"
                           [] s.st = "undefined" -> "undefined"
                           [] OTHER -> "idle"
                /\ result' = IF s.st = "run" THEN "none" ELSE s.st
    /\ UNCHANGED <<DEFAULT_PALETTE, decoded, view, color>>

\* while (iter != main.children.end()): the test
LoopTestCpp ==
    /\ pc = "cpp_loop"
    /\ IF iter = Len(children) + 1 THEN pc' = "idle" /\ result' = "ok"
       ELSE IF iter > Len(children) + 1 THEN pc' = "undefined" /\ result' = "undefined"
       ELSE pc' = "cpp_body" /\ result' = result
    /\ UNCHANGED <<vox, heap, DEFAULT_PALETTE, hdr, children, iter, fed, decoded, view,
                   color>>

\* one run of the loop's body, back to the test
LoopBodyCpp ==
    /\ pc = "cpp_body"
    /\ \E m \in {DispatchCpp(Mach(vox, heap, DEFAULT_PALETTE, iter, "run"), children)} :
         /\ vox' = m.vox
         /\ heap' = m.heap
         /\ DEFAULT_PALETTE' = m.dflt
         /\ iter' = m.iter
         /\ pc' = CASE m.st = "run" -> "cpp_loop"
                    [] m.st = "undefined" -> "undefined"
                    [] OTHER -> "idle"
         /\ result' = IF m.st = "run" THEN "none" ELSE m.st
    /\ UNCHANGED <<hdr, children, fed, decoded, view, color>>

\* A reader of VoxReader.cpp loading files of models, palettes and other
\* chunks.  A call of load that has started runs on: the test and the body of
\* its loop are taken whenever they are the next statement.
CppChunks == {CSize, CXyzi, CRgba, COther}
CppInputs == Files(CppChunks)
NextCpp == LoadBeginCpp(CppInputs) \/ LoopTestCpp \/ LoopBodyCpp
SpecCpp ==
    Init /\ [][NextCpp]_vars /\ WF_vars(LoopTestCpp) /\ WF_vars(LoopBodyCpp)


---------------------------------------------------------------------------
(* Properties                                                              *)

\* the exceptions of the header check of load
HeaderErrors == {"Magic string 'VOX ' is missing", "Version is not 150"}

\* load on a freshly constructed reader, from the PACK step on, for a stream whose
\* header passed and whose MAIN chunk has the children ch
FreshLoad(ch) ==
    RunLoop(Mach(FreshVox, <<>>, DefaultTable, PackStep(ch).iter, PackStep(ch).st), ch)

\* a load has returned or thrown after its header check passed
LoadDone == pc = "idle" /\ result # "none" /\ children # <<>>

\* C1: a load is never additive.  Whenever a load that got past its header check
\* has ended, the way it ended and the models, nodes, layers and materials of the
\* reader are those the same stream gives on a freshly constructed reader,
\* whatever the reader loaded before.
C1_LoadNeverAdditive ==
    LoadDone =>
        With(FreshLoad(children), LAMBDA f :
            /\ result = f.st
            /\ vox.models = f.vox.models
            /\ vox.nodes = f.vox.nodes
            /\ vox.layers = f.vox.layers
            /\ vox.materials = f.vox.materials)

\* C2: load raises the error of its header check if and only if the four bytes
\* read as magic differ from "VOX " or the version differs from 150.
C2_HeaderCheck ==
    (hdr.magic # <<>> /\ pc # "undefined") =>
        ((result \in HeaderErrors) <=> (hdr.magic # TagVOX \/ hdr.version # Version))

\* C3: when the stream ends before a chunk's header, content or children are
\* read in full, load fails with an error, never enters the interpretation of
\* the chunks, and the reader holds no models.
C3_TruncatedFails ==
    (hdr.fail /\ pc # "undefined") =>
        /\ pc = "idle"
        /\ result \notin {"ok", "none"}
        /\ vox.models = <<>>

\* C4: decoding a well-formed chunk advances the running byte offset by
\* 12 + contentSize + childrenSize.
C4_OffsetAdvance ==
    decoded.r.status = "ok" =>
        decoded.r.off - decoded.off0 =
            HeaderBytes + decoded.r.chunk.contentSize + decoded.r.chunk.childrenSize

\* the bytes a list of decoded chunks takes in the stream
RECURSIVE ChildrenSpan(_)
ChildrenSpan(cs) ==
    IF cs = <<>> THEN 0
    ELSE HeaderBytes + Head(cs).contentSize + Head(cs).childrenSize + ChildrenSpan(Tail(cs))

\* C5: for a well-formed chunk the sizes of the decoded children sum to the
\* declared childrenSize and the content holds contentSize bytes.
C5_ChildrenComplete ==
    decoded.r.status = "ok" =>
        /\ ChildrenSpan(decoded.r.chunk.children) = decoded.r.chunk.childrenSize
        /\ Len(decoded.r.chunk.content) = decoded.r.chunk.contentSize

\* the loop stands at a SIZE chunk whose next sibling is missing or not XYZI
SizeWithoutXyzi ==
    /\ pc = "loop"
    /\ iter <= Len(children)
    /\ StrEq(children[iter].id, TagSIZE)
    /\ \/ iter = Len(children)
       \/ ~StrEq(children[Min(iter + 1, Len(children))].id, TagXYZI)

\* C6: a SIZE chunk not followed by an XYZI chunk makes load fail with an error,
\* and no model is built from it.  (Nothing is asked of a step into undefined
\* behaviour.)
C6_SizeNeedsXyzi ==
    [][SizeWithoutXyzi =>
          \/ pc' = "undefined"
          \/ /\ pc' = "idle"
             /\ result' \notin {"ok", "none"}
             /\ vox'.models = vox.models]_vars

\* the id a node, layer or material chunk starts with
ChunkId(c) == readIntAt(c.content, 0).val

\* the node type of a node chunk's tag
NodeType(c) ==
    IF StrEq(c.id, TagNTRN) THEN TRANSFORM
    ELSE IF StrEq(c.id, TagNGRP) THEN GROUP
    ELSE IF StrEq(c.id, TagNSHP) THEN SHAPE
    ELSE "null"

\* the first load that reached the loop has returned normally
FirstLoadOk == pc = "idle" /\ result = "ok" /\ fed = Len(children)

\* every chunk of the list is an nTRN, nGRP or nSHP chunk, the ids are
\* non-negative and pairwise distinct
DistinctNodes(ch) ==
    /\ \A i \in 1..Len(ch) : NodeType(ch[i]) # "null" /\ ChunkId(ch[i]) >= 0
    /\ \A i, j \in 1..Len(ch) : ChunkId(ch[i]) = ChunkId(ch[j]) => i = j

\* ids asked of GetNode: every id of the inputs, one above and the negative -1
NodeIds == -1..(MaxChunks + 1)

\* C7: after load interpreted node chunks with pairwise distinct non-negative
\* ids, GetNode(id) is a node of the chunk's type for each of these ids and null
\* for every other id.
C7_GetNodeTyped ==
    (FirstLoadOk /\ DistinctNodes(children)) =>
        \A id \in NodeIds :
            GetNode(vox.nodes, id).type =
                IF \E i \in 1..Len(children) : ChunkId(children[i]) = id
                THEN NodeType(children[CHOOSE i \in 1..Len(children) :
                                           ChunkId(children[i]) = id])
                ELSE "null"

\* the loop stands at a node chunk whose id already holds a node
NodeAtOccupiedId ==
    /\ pc = "loop"
    /\ iter <= Len(children)
    /\ NodeType(children[Min(iter, Len(children))]) # "null"
    /\ readIntAt(children[Min(iter, Len(children))].content, 0).st = "ok"
    /\ ~IsNull(GetNode(vox.nodes, ChunkId(children[Min(iter, Len(children))])))

\* C8: reading a node chunk whose id already holds a node raises the duplicate
\* error and leaves the node storage as it was; a node, once stored at an id,
\* is never replaced or removed.
C8_DuplicateNode ==
    [][/\ NodeAtOccupiedId =>
            /\ pc' = "idle"
            /\ result' = "SceneGraph node duplicate!"
            /\ vox'.nodes = vox.nodes
       /\ pc' # "undefined" =>
            \A k \in 1..Len(vox.nodes) :
                ~IsNull(vox.nodes[k]) =>
                    k <= Len(vox'.nodes) /\ vox'.nodes[k] = vox.nodes[k]]_vars

\* a load ended with the duplicate error on a reader that holds nodes
C8_Witness ==
    /\ pc = "idle"
    /\ result = "SceneGraph node duplicate!"
    /\ \E k \in 1..Len(vox.nodes) : ~IsNull(vox.nodes[k])

\* every chunk of the list is a LAYR or MATL chunk with a non-negative id
OnlyTables(ch) ==
    \A i \in 1..Len(ch) :
        /\ StrEq(ch[i].id, TagLAYR) \/ StrEq(ch[i].id, TagMATL)
        /\ ChunkId(ch[i]) >= 0

\* the chunks of a tag in the list, by position
Tagged(ch, tag) == {i \in 1..Len(ch) : StrEq(ch[i].id, tag)}

\* the table holds, for every id of the tagged chunks, the dictionary of the last
\* chunk with that id
HoldsLast(table, ch, tag) ==
    \A i \in Tagged(ch, tag) :
        /\ ChunkId(ch[i]) < Len(table)
        /\ \E j \in Tagged(ch, tag) :
             /\ ChunkId(ch[j]) = ChunkId(ch[i])
             /\ \A k \in Tagged(ch, tag) : ChunkId(ch[k]) = ChunkId(ch[i]) => k <= j
             /\ table[ChunkId(ch[i]) + 1] = readDictionary(ch[j].content, 4).val

\* C9: after load interpreted LAYR and MATL chunks with non-negative ids, layers
\* and materials have a size above the highest id seen and hold at each id seen
\* the dictionary of the last chunk with that id.
C9_TablesGrow ==
    (FirstLoadOk /\ OnlyTables(children)) =>
        /\ HoldsLast(vox.layers, children, TagLAYR)
        /\ HoldsLast(vox.materials, children, TagMATL)

\* the RGBA chunks of 1024 content bytes in the list, by position
RgbaChunks(ch) ==
    {i \in 1..Len(ch) : StrEq(ch[i].id, TagRGBA) /\ Len(ch[i].content) = 4 * PaletteSize}

\* C10: after a load of a stream with an RGBA chunk of 1024 bytes the active
\* palette is a table of 256 entries other than DEFAULT_PALETTE, holding the
\* colors of the chunk's content, and DEFAULT_PALETTE holds its 256 colors.
C10_RgbaPalette ==
    (pc = "idle" /\ result = "ok" /\ RgbaChunks(children) # {}) =>
        /\ vox.palette # DefaultPtr
        /\ DEFAULT_PALETTE = DefaultTable
        /\ \E i \in RgbaChunks(children) :
             PaletteOf(vox, heap, DEFAULT_PALETTE) = NewPalette(children[i].content)

\* C11: after every call to load, successful or not, the palette refers to
\* DEFAULT_PALETTE or to a table that is allocated and not freed, and after a
\* successful load of an input without an RGBA chunk it is DEFAULT_PALETTE.
C11_PaletteValid ==
    (pc = "idle" /\ result # "none") =>
        /\ vox.palette = DefaultPtr \/ heap[vox.palette].live
        /\ (result = "ok" /\ RgbaChunks(children) = {}) => vox.palette = DefaultPtr

\* the first load that changed the reader has thrown
FirstLoadThrew ==
    /\ pc = "idle"
    /\ result \notin {"ok", "none"}
    /\ children # <<>>
    /\ fed = Len(children)

\* C12: when load throws, the reader is left cleared: no model, no scene graph
\* node, no layer and no material decoded from the chunks before the failing
\* one remains.
C12_FailedLoadCleared ==
    FirstLoadThrew =>
        /\ vox.models = <<>>
        /\ \A k \in 1..Len(vox.nodes) : IsNull(vox.nodes[k])
        /\ vox.layers = <<>>
        /\ vox.materials = <<>>

\* every voxel of the model lies inside the model's sizes
InBounds(model) ==
    \A k \in 1..Len(model.voxels) :
        /\ model.voxels[k].x < model.sizeX
        /\ model.voxels[k].y < model.sizeY
        /\ model.voxels[k].z < model.sizeZ

\* view2d returned a grid for a viewport of the enum
Viewed == pc = "viewed" /\ view.st = "ok" /\ view.viewport \in {XZ, XY, YZ}

\* the voxels of the viewed model that map to the cell [i][j], by position
MapsTo(i, j) ==
    {k \in 1..Len(view.model.voxels) :
        SwapAxis(view.flags,
                 ViewCell(view.model, view.model.voxels[k], view.viewport, view.flags))
            = [vx |-> i, vy |-> j,
               vz |-> DepthOf(view.model.voxels[k], view.viewport)]}

\* voxel k is the nearest of the voxels M: no voxel of M is strictly nearer, and
\* none of the same depth comes before it
NearestOf(k, M) ==
    \A o \in M :
        /\ ~comparator(view.flags, DepthOf(view.model.voxels[o], view.viewport),
                       DepthOf(view.model.voxels[k], view.viewport))
        /\ DepthOf(view.model.voxels[o], view.viewport)
               = DepthOf(view.model.voxels[k], view.viewport) => k <= o

\* C13: for a model with its voxels in bounds, each cell of the grid view2d
\* returns holds the nearest (on equal depth the first) of the voxels that map
\* to the cell, and a cell no voxel maps to is empty.
C13_ViewNearest ==
    (Viewed /\ InBounds(view.model)) =>
        \A i \in 1..Len(view.grid) : \A j \in 1..Len(view.grid[i]) :
            IF MapsTo(i - 1, j - 1) = {} THEN view.grid[i][j] = NullPtr
            ELSE /\ view.grid[i][j] # NullPtr
                 /\ \E k \in MapsTo(i - 1, j - 1) :
                      /\ NearestOf(k, MapsTo(i - 1, j - 1))
                      /\ view.deref = <<view.model.voxels[k]>>

\* C14: view2d fails with an error when modelIndex is not below the number of
\* models, and when the viewport is none of XZ, XY, YZ, also for a model
\* without voxels.
C14_ViewErrors ==
    (view.st # "none" /\ (view.model = NoModel \/ view.viewport \notin {XZ, XY, YZ})) =>
        view.st \notin {"ok", "undefined"}

\* C15: in every model a successful load leaves in the reader, every voxel lies
\* inside the model's sizes.
C15_VoxelsInBounds ==
    (pc = "idle" /\ result = "ok") =>
        \A k \in 1..Len(vox.models) : InBounds(vox.models[k])

\* C16: unpacking RGBA(a, r, g, b).pack() gives the four channels back, pack is
\* a * 2^24 + r * 2^16 + g * 2^8 + b (alpha in the highest byte, blue in the
\* lowest), and packing the unpacked channels of a 32-bit value gives the value
\* back.
C16_PackRoundTrip ==
    /\ color.st = "packed" =>
         /\ color.back = color.rgba
         /\ color.word = Word(color.rgba.a * 256 + color.rgba.r,
                              color.rgba.g * 256 + color.rgba.b)
    /\ color.st = "unpacked" => color.back = color.word

\* a color with the highest bit of alpha set has been packed
C16_Witness ==
    /\ color.st = "packed"
    /\ color.rgba = RGBAOf(128, 255, 1, 0)
    /\ color.word = Word(33023, 256)

\* a tag that is none of SIZE, RGBA, LAYR, MATL and does not start with 'n'
UnknownTag(id) ==
    /\ ~StrEq(id, TagSIZE) /\ ~StrEq(id, TagRGBA)
    /\ ~StrEq(id, TagLAYR) /\ ~StrEq(id, TagMATL)
    /\ id[1] # ChN

\* the loop of VoxReader.cpp stands at a chunk of an unknown tag
AtUnknownCpp ==
    /\ pc = "cpp_body"
    /\ iter <= Len(children)
    /\ UnknownTag(children[Min(iter, Len(children))].id)

\* C17: a top-level chunk whose tag is none of SIZE, RGBA, LAYR, MATL and does
\* not start with 'n' is skipped and load terminates, in VoxReader.cpp as in
\* VoxReader.hpp: once the loop stands at such a chunk, the call comes to its
\* end.
C17_UnknownSkipped == AtUnknownCpp ~> (pc = "idle" \/ pc = "undefined")

\* the extents of the axis pairing of a viewport: <<first, second>>, exchanged
\* under SWAP_AXIS
PairExtents(model, viewport, flags) ==
    With(CASE viewport = XZ -> <<model.sizeX, model.sizeZ>>
           [] viewport = XY -> <<model.sizeX, model.sizeY>>
           [] viewport = YZ -> <<model.sizeY, model.sizeZ>>,
         LAMBDA e : IF Flag(flags, SWAP_AXIS) THEN <<e[2], e[1]>> ELSE e)

\* C18: for a model with its voxels in bounds and a viewport of XZ, XY, YZ, the
\* grid view2d builds has the extents of the axis pairing and every voxel is
\* stored at indices inside the grid.
C18_ViewExtents ==
    (view.st # "none" /\ view.model # NoModel /\ InBounds(view.model)
        /\ view.viewport \in {XZ, XY, YZ}) =>
        /\ view.st = "ok"
        /\ Len(view.grid) = PairExtents(view.model, view.viewport, view.flags)[1]
        /\ \A i \in 1..Len(view.grid) :
             Len(view.grid[i]) = PairExtents(view.model, view.viewport, view.flags)[2]

\* C19: a step of the interpretation loop at a chunk other than SIZE moves the
\* cursor by exactly one chunk, so that the chunk after an nTRN, nGRP or nSHP
\* chunk is dispatched too, and the cursor never moves past the end of the
\* child list.
C19_CursorAdvance ==
    [][(pc = "loop" /\ iter <= Len(children)) =>
          /\ iter' <= Len(children) + 1
          /\ (~StrEq(children[Min(iter, Len(children))].id, TagSIZE) /\ pc' = "loop")
                => iter' = iter + 1]_vars

=============================================================================
